---------------------------- MODULE Spec2Model ----------------------------
(***************************************************************************)
(* A model of scripts/global_media_scraper.py: the paginated crawl          *)
(* (main), the media extractor, the filename derivation, the metadata       *)
(* persister and the concurrent download pool (download_media).             *)
(*                                                                          *)
(* URLs are records [host, dir, name, ext, query]; UrlString gives the      *)
(* string the program holds.  os.path.basename / os.path.splitext of the    *)
(* URL path are the fields name and ext (no basename of the universe starts *)
(* with a dot, the one case where splitext and the last-dot suffix differ). *)
(* hashlib.md5 is a table of the real digests of the URLs of the universe.  *)
(***************************************************************************)
EXTENDS Naturals, Integers, Sequences, FiniteSets, Bags, TLC

---------------------------------------------------------------------------
(* Bounds of the model *)

\* Pages 1..SitePages of the listing may answer with content; later pages
\* always fail to load.
SitePages == 3

\* Largest number of candidate elements in one served document.
MaxElems == 2

\* Number of monsters, each with its image, on the listing of dofus_scraping.py.
PageMonsters == 3

\* Largest quantity a row of user_monsters is let to hold.
MaxQuantity == 2

\* Largest change, up or down, given to update_quantity.
MaxChange == 2

---------------------------------------------------------------------------
(* Program constants *)

max_pages == 100

max_consecutive_failures == 3

MEDIA_TYPE_MAP ==
    [ Images    |-> {".jpg", ".jpeg", ".png", ".gif", ".bmp", ".webp", ".tiff",
                     ".svg", ".ico", ".heic", ".jfif"},
      Videos    |-> {".mp4", ".webm", ".avi", ".mov", ".wmv", ".flv", ".mkv",
                     ".m4v", ".3gp", ".mpeg", ".mpg"},
      Audio     |-> {".mp3", ".wav", ".ogg", ".flac", ".aac", ".m4a", ".wma",
                     ".opus"},
      Documents |-> {".pdf", ".doc", ".docx", ".xls", ".xlsx", ".ppt", ".pptx"} ]

MEDIA_EXTENSIONS ==
    MEDIA_TYPE_MAP.Images \cup MEDIA_TYPE_MAP.Videos
        \cup MEDIA_TYPE_MAP.Audio \cup MEDIA_TYPE_MAP.Documents

---------------------------------------------------------------------------
(* Strings and URLs *)

\* The extensions of the universe without their dot, each with its upper-case
\* form.
CasePairs ==
    { <<"jpg", "JPG">>, <<"jpeg", "JPEG">>, <<"png", "PNG">>,
      <<"gif", "GIF">>, <<"bmp", "BMP">>, <<"webp", "WEBP">>,
      <<"tiff", "TIFF">>, <<"svg", "SVG">>, <<"ico", "ICO">>,
      <<"heic", "HEIC">>, <<"jfif", "JFIF">>, <<"mp4", "MP4">>,
      <<"webm", "WEBM">>, <<"avi", "AVI">>, <<"mov", "MOV">>,
      <<"wmv", "WMV">>, <<"flv", "FLV">>, <<"mkv", "MKV">>, <<"m4v", "M4V">>,
      <<"3gp", "3GP">>, <<"mpeg", "MPEG">>, <<"mpg", "MPG">>,
      <<"mp3", "MP3">>, <<"wav", "WAV">>, <<"ogg", "OGG">>,
      <<"flac", "FLAC">>, <<"aac", "AAC">>, <<"m4a", "M4A">>,
      <<"wma", "WMA">>, <<"opus", "OPUS">>, <<"pdf", "PDF">>,
      <<"doc", "DOC">>, <<"docx", "DOCX">>, <<"xls", "XLS">>,
      <<"xlsx", "XLSX">>, <<"ppt", "PPT">>, <<"pptx", "PPTX">>,
      <<"html", "HTML">>, <<"txt", "TXT">> }

\* str.upper() on the extensions of the universe without their dot.
Upper(s) ==
    IF \E p \in CasePairs : p[1] = s
    THEN (CHOOSE p \in CasePairs : p[1] = s)[2]
    ELSE s

\* The lower-case form of every upper-case extension, with and without dot.
LowerTable ==
    [s \in {p[2] : p \in CasePairs} \cup {"." \o p[2] : p \in CasePairs} |->
        IF \E p \in CasePairs : s = p[2]
        THEN (CHOOSE p \in CasePairs : s = p[2])[1]
        ELSE "." \o (CHOOSE p \in CasePairs : s = "." \o p[2])[1]]

\* str.lower() on the extensions of the universe, with or without their dot.
Lower(s) == IF s \in DOMAIN LowerTable THEN LowerTable[s] ELSE s

NoQuery == << >>

\* The string of a URL record: scheme://host/dir name ext ?page=n
UrlString(u) ==
    "https://" \o u.host \o "/" \o u.dir \o u.name \o u.ext
        \o (IF u.query = NoQuery THEN "" ELSE "?page=" \o ToString(u.query[1]))

\* The string of an attribute value: absolute when it names a host.
RefString(r) ==
    (IF r.host = "" THEN "" ELSE "https://" \o r.host \o "/")
        \o r.dir \o r.name \o r.ext

\* hashlib.md5(url.encode()).hexdigest()[:8], for the picture of each page of
\* the site of max_pages pages.
LongSiteMd5Hex8(s) ==
    CASE s = "https://site.test/1/pic.jpg" -> "acf6d355"
      [] s = "https://site.test/2/pic.jpg" -> "316e86cf"
      [] s = "https://site.test/3/pic.jpg" -> "13c91af7"
      [] s = "https://site.test/4/pic.jpg" -> "3991e22e"
      [] s = "https://site.test/5/pic.jpg" -> "ba310919"
      [] s = "https://site.test/6/pic.jpg" -> "eb747601"
      [] s = "https://site.test/7/pic.jpg" -> "d229107c"
      [] s = "https://site.test/8/pic.jpg" -> "da6989a1"
      [] s = "https://site.test/9/pic.jpg" -> "4109c530"
      [] s = "https://site.test/10/pic.jpg" -> "bdf740f3"
      [] s = "https://site.test/11/pic.jpg" -> "c2180ad2"
      [] s = "https://site.test/12/pic.jpg" -> "3c940fa4"
      [] s = "https://site.test/13/pic.jpg" -> "1ff26745"
      [] s = "https://site.test/14/pic.jpg" -> "3ea546df"
      [] s = "https://site.test/15/pic.jpg" -> "1a70556d"
      [] s = "https://site.test/16/pic.jpg" -> "76772931"
      [] s = "https://site.test/17/pic.jpg" -> "fad3ead6"
      [] s = "https://site.test/18/pic.jpg" -> "1f78324a"
      [] s = "https://site.test/19/pic.jpg" -> "9af72622"
      [] s = "https://site.test/20/pic.jpg" -> "ceb9883b"
      [] s = "https://site.test/21/pic.jpg" -> "db834352"
      [] s = "https://site.test/22/pic.jpg" -> "4d8b83cd"
      [] s = "https://site.test/23/pic.jpg" -> "dc3ad313"
      [] s = "https://site.test/24/pic.jpg" -> "248003e4"
      [] s = "https://site.test/25/pic.jpg" -> "ac9b4c43"
      [] s = "https://site.test/26/pic.jpg" -> "088c08c5"
      [] s = "https://site.test/27/pic.jpg" -> "20ef9fdd"
      [] s = "https://site.test/28/pic.jpg" -> "17fff72b"
      [] s = "https://site.test/29/pic.jpg" -> "647216a7"
      [] s = "https://site.test/30/pic.jpg" -> "9d1c95dc"
      [] s = "https://site.test/31/pic.jpg" -> "423307d8"
      [] s = "https://site.test/32/pic.jpg" -> "ea5ed73d"
      [] s = "https://site.test/33/pic.jpg" -> "6aac0023"
      [] s = "https://site.test/34/pic.jpg" -> "597772fc"
      [] s = "https://site.test/35/pic.jpg" -> "2f09320d"
      [] s = "https://site.test/36/pic.jpg" -> "dfc1053c"
      [] s = "https://site.test/37/pic.jpg" -> "babb973c"
      [] s = "https://site.test/38/pic.jpg" -> "841dc98d"
      [] s = "https://site.test/39/pic.jpg" -> "d9db1f25"
      [] s = "https://site.test/40/pic.jpg" -> "cdd708a7"
      [] s = "https://site.test/41/pic.jpg" -> "2526b1c9"
      [] s = "https://site.test/42/pic.jpg" -> "217702c5"
      [] s = "https://site.test/43/pic.jpg" -> "0e98195c"
      [] s = "https://site.test/44/pic.jpg" -> "6af55b32"
      [] s = "https://site.test/45/pic.jpg" -> "9389e8d4"
      [] s = "https://site.test/46/pic.jpg" -> "a6fe0b30"
      [] s = "https://site.test/47/pic.jpg" -> "011ca0dc"
      [] s = "https://site.test/48/pic.jpg" -> "487076ee"
      [] s = "https://site.test/49/pic.jpg" -> "b25f1828"
      [] s = "https://site.test/50/pic.jpg" -> "ccd4e06a"
      [] s = "https://site.test/51/pic.jpg" -> "7216a3ec"
      [] s = "https://site.test/52/pic.jpg" -> "1c17a501"
      [] s = "https://site.test/53/pic.jpg" -> "0a11e0f7"
      [] s = "https://site.test/54/pic.jpg" -> "1e3ab2f7"
      [] s = "https://site.test/55/pic.jpg" -> "4bc206df"
      [] s = "https://site.test/56/pic.jpg" -> "23c4c848"
      [] s = "https://site.test/57/pic.jpg" -> "cdcdc07e"
      [] s = "https://site.test/58/pic.jpg" -> "47682ce6"
      [] s = "https://site.test/59/pic.jpg" -> "8c8ba49b"
      [] s = "https://site.test/60/pic.jpg" -> "183f7998"
      [] s = "https://site.test/61/pic.jpg" -> "a1f5baf3"
      [] s = "https://site.test/62/pic.jpg" -> "dd5ed897"
      [] s = "https://site.test/63/pic.jpg" -> "df0a86e5"
      [] s = "https://site.test/64/pic.jpg" -> "3a76d849"
      [] s = "https://site.test/65/pic.jpg" -> "02a431dc"
      [] s = "https://site.test/66/pic.jpg" -> "c9d0c977"
      [] s = "https://site.test/67/pic.jpg" -> "1d618939"
      [] s = "https://site.test/68/pic.jpg" -> "8ff223b0"
      [] s = "https://site.test/69/pic.jpg" -> "1cb1d6d4"
      [] s = "https://site.test/70/pic.jpg" -> "a775a07b"
      [] s = "https://site.test/71/pic.jpg" -> "bc94ce7a"
      [] s = "https://site.test/72/pic.jpg" -> "76a87153"
      [] s = "https://site.test/73/pic.jpg" -> "a9abcc62"
      [] s = "https://site.test/74/pic.jpg" -> "4d719915"
      [] s = "https://site.test/75/pic.jpg" -> "34a3a2ab"
      [] s = "https://site.test/76/pic.jpg" -> "14f3f3bf"
      [] s = "https://site.test/77/pic.jpg" -> "c4bf38d6"
      [] s = "https://site.test/78/pic.jpg" -> "a2103c5d"
      [] s = "https://site.test/79/pic.jpg" -> "ba127b40"
      [] s = "https://site.test/80/pic.jpg" -> "bed511f5"
      [] s = "https://site.test/81/pic.jpg" -> "3a65f4a7"
      [] s = "https://site.test/82/pic.jpg" -> "6b2e2291"
      [] s = "https://site.test/83/pic.jpg" -> "57b195fd"
      [] s = "https://site.test/84/pic.jpg" -> "9cef3da6"
      [] s = "https://site.test/85/pic.jpg" -> "8252f5ff"
      [] s = "https://site.test/86/pic.jpg" -> "5714d20e"
      [] s = "https://site.test/87/pic.jpg" -> "df58aa1f"
      [] s = "https://site.test/88/pic.jpg" -> "a9ca29d5"
      [] s = "https://site.test/89/pic.jpg" -> "27b7bf8b"
      [] s = "https://site.test/90/pic.jpg" -> "e4e92c07"
      [] s = "https://site.test/91/pic.jpg" -> "d0dc7e63"
      [] s = "https://site.test/92/pic.jpg" -> "09aa3f3f"
      [] s = "https://site.test/93/pic.jpg" -> "7988cb24"
      [] s = "https://site.test/94/pic.jpg" -> "1509f261"
      [] s = "https://site.test/95/pic.jpg" -> "84b2794b"
      [] s = "https://site.test/96/pic.jpg" -> "8f7508e9"
      [] s = "https://site.test/97/pic.jpg" -> "e4ab216e"
      [] s = "https://site.test/98/pic.jpg" -> "07390969"
      [] s = "https://site.test/99/pic.jpg" -> "1b91c025"
      [] s = "https://site.test/100/pic.jpg" -> "4e0b6f18"

\* hashlib.md5(url.encode()).hexdigest()[:8], for the URLs of the universe.
Md5Hex8(s) ==
    CASE s = "https://a.test/icon.png" -> "8cc60b39"
      [] s = "https://a.test/pic.jpg" -> "d501a007"
      [] s = "https://a.test/x/icon.png" -> "edca15c4"
      [] s = "https://a.test/x/pic.jpg" -> "171afe7b"
      [] s = "https://a.test/y/icon.png" -> "a0d98779"
      [] s = "https://a.test/y/pic.jpg" -> "a17db162"
      [] s = "https://b.test/icon.png" -> "02a0bc50"
      [] s = "https://b.test/pic.jpg" -> "cc232341"
      [] s = "https://b.test/x/icon.png" -> "d0398260"
      [] s = "https://b.test/x/pic.jpg" -> "5a99b035"
      [] s = "https://b.test/y/icon.png" -> "e833ea72"
      [] s = "https://b.test/y/pic.jpg" -> "0e9c5cc9"
      [] s = "https://site.test/icon.png" -> "be131bb3"
      [] s = "https://site.test/pic.jpg" -> "0dc0aaa4"
      [] s = "https://site.test/x/icon.png" -> "821726fa"
      [] s = "https://site.test/x/pic.jpg" -> "2450f1ad"
      [] s = "https://site.test/y/icon.png" -> "687b6f77"
      [] s = "https://site.test/y/pic.jpg" -> "b4fa5052"
      [] s = "https://a.test/p172752/icon.png" -> "2abaa337"
      [] s = "https://a.test/p201091/icon.png" -> "2abaa337"
      [] s = "https://site.test/x/" -> "83a5cb1b"
      [] s = "https://site.test/clip.MP4" -> "309a704c"
      [] s = "https://site.test/clip.webm" -> "9b618e82"
      [] OTHER -> LongSiteMd5Hex8(s)

\* urljoin(base_url, url): an absolute reference is returned as it is, a
\* relative one is joined to the directory of the base.
clean_url(url, base_url) ==
    IF url.host # ""
    THEN [host |-> url.host, dir |-> url.dir, name |-> url.name,
          ext |-> url.ext, query |-> NoQuery]
    ELSE [host |-> base_url.host, dir |-> base_url.dir \o url.dir,
          name |-> url.name, ext |-> url.ext, query |-> NoQuery]

\* The filename "name_hash.ext" as the record of its three parts.
get_unique_filename(url) ==
    [ name |-> IF url.name \o url.ext = "" THEN "file" ELSE url.name,
      hash |-> Md5Hex8(UrlString(url)),
      ext  |-> url.ext ]

FilenameString(fn) == fn.name \o "_" \o fn.hash \o fn.ext

\* A variant of get_media_type that compares the extension as it is given.
get_media_type_CaseSensitive(extension) ==
    CASE extension \in MEDIA_TYPE_MAP.Images -> "Images"
      [] extension \in MEDIA_TYPE_MAP.Videos -> "Videos"
      [] extension \in MEDIA_TYPE_MAP.Audio -> "Audio"
      [] extension \in MEDIA_TYPE_MAP.Documents -> "Documents"
      [] OTHER -> "Others"

get_media_type(extension) ==
    LET ext == Lower(extension) IN
    CASE ext \in MEDIA_TYPE_MAP.Images -> "Images"
      [] ext \in MEDIA_TYPE_MAP.Videos -> "Videos"
      [] ext \in MEDIA_TYPE_MAP.Audio -> "Audio"
      [] ext \in MEDIA_TYPE_MAP.Documents -> "Documents"
      [] OTHER -> "Others"

\* The default of --output.
output_folder == "downloads"

\* download_task: os.path.join(output_folder, media_type, filename).
FilePath(item) ==
    output_folder \o "/" \o get_media_type(item.filename.ext) \o "/"
        \o FilenameString(item.filename)

update_url_page(url, page_number) ==
    [url EXCEPT !.query = <<page_number>>]

---------------------------------------------------------------------------
(* Documents *)

NoRef == [host |-> "", dir |-> "", name |-> "", ext |-> ""]

RelPic == [host |-> "", dir |-> "", name |-> "pic", ext |-> ".jpg"]
AbsPic == [host |-> "site.test", dir |-> "", name |-> "pic", ext |-> ".jpg"]
IconOne == [host |-> "a.test", dir |-> "p172752/", name |-> "icon", ext |-> ".png"]
IconTwo == [host |-> "a.test", dir |-> "p201091/", name |-> "icon", ext |-> ".png"]
RelHtml == [host |-> "", dir |-> "", name |-> "next", ext |-> ".html"]

\* The elements a served document is made of: an element kind, the values of
\* its src and href attributes (NoRef when absent), alt and title.
Elements ==
    { [tag |-> "img", src |-> RelPic,  href |-> NoRef,   alt |-> "pic", title |-> ""],
      [tag |-> "a",   src |-> NoRef,   href |-> AbsPic,  alt |-> "",    title |-> "full"],
      [tag |-> "img", src |-> IconOne, href |-> NoRef,   alt |-> "",    title |-> ""],
      [tag |-> "img", src |-> IconTwo, href |-> NoRef,   alt |-> "",    title |-> ""],
      [tag |-> "a",   src |-> NoRef,   href |-> RelHtml, alt |-> "",    title |-> ""] }

RelClip == [host |-> "", dir |-> "", name |-> "clip", ext |-> ".MP4"]
RelWebm == [host |-> "", dir |-> "", name |-> "clip", ext |-> ".webm"]

\* Elements of the two other kinds the extraction looks for.
ClipElements ==
    { [tag |-> "video",  src |-> RelClip, href |-> NoRef, alt |-> "", title |-> ""],
      [tag |-> "source", src |-> RelWebm, href |-> NoRef, alt |-> "", title |-> ""] }

\* Documents: the candidate elements in document order.
Docs == UNION { [1..n -> Elements] : n \in 0..MaxElems }

\* A file of the working directory: absent, or written with a list of lines.
Absent == [exists |-> FALSE, content |-> << >>]
FileOf(content) == [exists |-> TRUE, content |-> content]

\* What fetch_html may return: None, an empty text, or a document.
None == [kind |-> "none", elems |-> << >>]
EmptyText == [kind |-> "empty", elems |-> << >>]
Html(doc) == [kind |-> "doc", elems |-> doc]

\* A variant of Falsy that holds for None only.
Falsy_NoneOnly(html) == html.kind = "none"

\* Python's "not html".
Falsy(html) == html.kind \in {"none", "empty"}

\* A variant of tags_and_attrs that looks for the anchors first.
tags_and_attrs_AnchorFirst ==
    << <<"a", "href">>, <<"img", "src">>, <<"video", "src">>, <<"source", "src">> >>

tags_and_attrs == << <<"img", "src">>, <<"video", "src">>, <<"source", "src">>,
                     <<"a", "href">> >>

Attr(tag, attr) == IF attr = "src" THEN tag.src ELSE tag.href

\* The elements of one kind, in document order, that pass the two filters.
Candidates(elems, tag_name, attr) ==
    SelectSeq(elems, LAMBDA tag :
        /\ tag.tag = tag_name
        /\ RefString(Attr(tag, attr)) # ""
        /\ Lower(Attr(tag, attr).ext) \in MEDIA_EXTENSIONS)

MediaItem(tag, attr, base_url, page_url) ==
    LET full_url == clean_url(Attr(tag, attr), base_url) IN
    [ filename |-> get_unique_filename(full_url),
      url      |-> full_url,
      alt      |-> tag.alt,
      title    |-> tag.title,
      tag      |-> tag.tag,
      page_url |-> page_url ]

RECURSIVE ExtractFrom(_, _, _, _)
ExtractFrom(k, elems, base_url, page_url) ==
    IF k > Len(tags_and_attrs) THEN << >>
    ELSE LET c == Candidates(elems, tags_and_attrs[k][1], tags_and_attrs[k][2])
         IN  [i \in 1..Len(c) |->
                 MediaItem(c[i], tags_and_attrs[k][2], base_url, page_url)]
             \o ExtractFrom(k + 1, elems, base_url, page_url)

get_media_links_with_metadata(html, base_url, page_url) ==
    ExtractFrom(1, html.elems, base_url, page_url)

---------------------------------------------------------------------------
(* State *)

VARIABLES
    pc,                    \* where main is
    start_url,             \* the listing URL given on the command line
    page_num,              \* the loop variable of the pagination loop
    consecutive_failures,
    all_urls_seen,
    media_info_all,
    json_file,             \* media_files.json: Absent or the list written
    csv_file,              \* media_files.csv
    fetches,               \* log of the page requests issued: [page, ok]
    extractions,           \* log of the extractions: [page, found, new, total]
    stop_reason,
    task,                  \* download_media: per item, where its task is, what
                           \* it wrote of its file, and what it returned
    attempts,              \* per item, the outcomes of the requests issued for it
    existed,               \* per item, whether its destination existed at its start
    files,                 \* the destination files: path -> state of the file
    failed_urls,
    report_file,           \* failed_downloads.txt: Absent or the list written
    url_a, url_b,          \* two URLs given to the filename derivation
    name_a, name_b,        \* the filenames derived from them
    extension,             \* an extension given to get_media_type: its letters,
                           \* whether it has its dot, whether it is upper case
    media_type,            \* what get_media_type returned for it
    html_in,               \* a document given to get_media_links_with_metadata
    items_out,             \* the list it returned
    image_files,           \* the listing scrapers: per monster, the state of
                           \* its image file under the download directory
                           \* ("nourl": its row has no image URL)
    image_before,          \* per monster, the state of the file when the run began
    image_requests,        \* per monster, the requests issued for it in this run
    image_result,          \* per monster, what download_image (download_media
                           \* of dofus-scraping.py) returned in this run
    monster_idx,           \* the next row extract_monsters looks at
    user_monsters,         \* app.py: the committed rows of the table
                           \* user_monsters, a bag of rows
    db_session,            \* per session of the application, the transaction
                           \* of its call of update_quantity
    output_writable,       \* whether directories can be made at the output folder
    site                   \* which site answers: "short" has SitePages pages of
                           \* any content, "long" has max_pages pages, "blank"
                           \* answers with an empty body where it has no page

\* The variables of main other than pc.
crawlData == <<start_url, page_num, consecutive_failures, all_urls_seen,
               media_info_all, json_file, csv_file, fetches, extractions,
               stop_reason>>

\* The variables of download_media.
dlVars == <<task, attempts, existed, files, failed_urls, report_file>>

\* The variables of the filename derivation taken alone.
fnVars == <<url_a, url_b, name_a, name_b>>

\* The variables of the classifier taken alone.
clsVars == <<extension, media_type>>

\* The variables of the functions and scripts looked at on their own.
\* The variables of the extraction taken alone.
extVars == <<html_in, items_out>>

\* The variables of download_image of dofus_scraping.py.
imgVars == <<image_files, image_before, image_requests, image_result, monster_idx>>

\* What the run finds and does not change.
envVars == <<output_writable, site>>

dbVars == <<user_monsters, db_session>>

sideVars == <<clsVars, extVars, imgVars, envVars, dbVars>>

vars == <<pc, crawlData, dlVars, fnVars, sideVars>>

ListingUrl ==
    [host |-> "site.test", dir |-> "", name |-> "list", ext |-> "", query |-> NoQuery]

has_pagination == start_url.query # NoQuery

\* The picture that only this page of the long site holds.
PagePicture(n) ==
    [tag |-> "img",
     src |-> [host |-> "", dir |-> ToString(n) \o "/", name |-> "pic", ext |-> ".jpg"],
     href |-> NoRef, alt |-> "", title |-> ""]

\* The long site: every page up to max_pages loads and holds its picture
\* (the start URL itself is page 1); the last two pages may also fail.
LongSiteResults(n) ==
    IF n > max_pages THEN {None}
    ELSE {Html(<<PagePicture(IF n = 0 THEN 1 ELSE n)>>)}
            \cup (IF n >= max_pages - 1 THEN {None} ELSE {})

\* The documents of the blank site: each holds at least one media element.
BlankSiteDocs ==
    UNION { [1..n -> {e \in Elements : e.src # IconTwo /\ e.href # RelHtml}] :
              n \in 1..MaxElems }

\* The blank site: a request is always answered with status 200; the body is
\* a document that holds media or is empty on the first SitePages pages, and
\* is empty after them.
BlankSiteResults(n) ==
    IF n <= SitePages
    THEN {EmptyText} \cup {Html(d) : d \in BlankSiteDocs}
    ELSE {EmptyText}

\* The documents of the small site: up to MaxElems pictures, or nothing.
SmallSiteDocs ==
    UNION { [1..n -> {e \in Elements : e.src \in {RelPic, IconOne}}] :
              n \in 0..MaxElems }

\* The small site: the start URL and its first page answer or fail, and no
\* page follows them.
SmallSiteResults(n) ==
    IF n <= 1
    THEN {None} \cup {Html(d) : d \in SmallSiteDocs}
    ELSE {None}

\* fetch_html for the page with this number (0: the start URL itself).
FetchResults(n) ==
    IF site = "long" THEN LongSiteResults(n)
    ELSE IF site = "blank" THEN BlankSiteResults(n)
    ELSE IF site = "small" THEN SmallSiteResults(n)
    ELSE IF n <= SitePages
    THEN {None, EmptyText} \cup {Html(d) : d \in Docs}
    ELSE {None}

Urls(items) == {items[i].url : i \in DOMAIN items}

\* download_media has not been called.
NotStarted ==
    /\ task = << >>
    /\ attempts = << >>
    /\ existed = << >>
    /\ files = << >>
    /\ failed_urls = << >>
    /\ report_file = Absent

\* No filename derivation is looked at on its own.
NoDerivation ==
    /\ url_a = ListingUrl
    /\ url_b = ListingUrl
    /\ name_a = "none"
    /\ name_b = "none"

NoExtension == [base |-> "", dot |-> FALSE, upper |-> FALSE]

NoClassification ==
    /\ extension = NoExtension
    /\ media_type = "none"

NoExtraction ==
    /\ html_in = << >>
    /\ items_out = << >>

NoImages ==
    /\ image_files = << >>
    /\ image_before = << >>
    /\ image_requests = << >>
    /\ image_result = << >>
    /\ monster_idx = 0

\* No function or script is looked at on its own.
\* The application's sessions and table: two sessions, none inside a call,
\* and no row in the table.
Sessions == {"s1", "s2"}

Idle == [state |-> "idle", user_id |-> 0, monster_name |-> "", quantity |-> 0,
         conflict |-> FALSE]

NoDatabase ==
    /\ user_monsters = EmptyBag
    /\ db_session = [s \in Sessions |-> Idle]

NoSide ==
    /\ NoClassification
    /\ NoExtraction
    /\ NoImages
    /\ NoDatabase

\* main before its first request.
CrawlStart ==
    /\ pc = "start"
    /\ start_url \in {ListingUrl, update_url_page(ListingUrl, 1)}
    /\ page_num = 0
    /\ consecutive_failures = 0
    /\ all_urls_seen = {}
    /\ media_info_all = << >>
    /\ json_file = Absent
    /\ csv_file = Absent
    /\ fetches = << >>
    /\ extractions = << >>
    /\ stop_reason = "none"
    /\ NotStarted
    /\ NoDerivation
    /\ NoSide

InitCrawl ==
    /\ CrawlStart
    /\ output_writable = TRUE
    /\ site = "short"

\* The same start on either site.
InitLong ==
    /\ CrawlStart
    /\ output_writable = TRUE
    /\ site \in {"short", "long"}

\* The same start on the blank site.
InitBlank ==
    /\ CrawlStart
    /\ output_writable = TRUE
    /\ site = "blank"

\* The same start with an output folder at which nothing can be made.
InitUnwritable ==
    /\ CrawlStart
    /\ output_writable = FALSE
    /\ site = "short"

---------------------------------------------------------------------------
(* main: single-page mode *)

\* A variant of SinglePage that asks for the page again after a failed fetch.
SinglePage_Refetches ==
    /\ pc = "start"
    /\ ~has_pagination
    /\ \E html \in FetchResults(0) :
        /\ fetches' = Append(fetches, [page |-> 0, ok |-> ~Falsy(html)])
        /\ IF Falsy(html)
           THEN /\ pc' = IF Len(fetches) < 2 THEN "start" ELSE "exit"
                /\ stop_reason' = "FetchFailed"
                /\ UNCHANGED <<all_urls_seen, media_info_all, extractions>>
           ELSE LET media_items ==
                        get_media_links_with_metadata(html, start_url, start_url)
                IN  /\ all_urls_seen' = all_urls_seen \cup Urls(media_items)
                    /\ media_info_all' = media_info_all \o media_items
                    /\ extractions' = Append(extractions,
                           [page |-> 0, found |-> Len(media_items),
                            new |-> Len(media_items),
                            total |-> Len(media_info_all')])
                    /\ pc' = "persist"
                    /\ stop_reason' = "SinglePage"
    /\ UNCHANGED <<start_url, page_num, consecutive_failures, json_file, csv_file>>
    /\ UNCHANGED <<dlVars, fnVars, sideVars>>

SinglePage ==
    /\ pc = "start"
    /\ ~has_pagination
    /\ \E html \in FetchResults(0) :
        /\ fetches' = Append(fetches, [page |-> 0, ok |-> ~Falsy(html)])
        /\ IF Falsy(html)
           THEN /\ pc' = "exit"
                /\ stop_reason' = "FetchFailed"
                /\ UNCHANGED <<all_urls_seen, media_info_all, extractions>>
           ELSE LET media_items ==
                        get_media_links_with_metadata(html, start_url, start_url)
                IN  /\ all_urls_seen' = all_urls_seen \cup Urls(media_items)
                    /\ media_info_all' = media_info_all \o media_items
                    /\ extractions' = Append(extractions,
                           [page |-> 0, found |-> Len(media_items),
                            new |-> Len(media_items),
                            total |-> Len(media_info_all')])
                    /\ pc' = "persist"
                    /\ stop_reason' = "SinglePage"
    /\ UNCHANGED <<start_url, page_num, consecutive_failures, json_file, csv_file>>
    /\ UNCHANGED <<dlVars, fnVars, sideVars>>

---------------------------------------------------------------------------
(* main: pagination mode *)

StartPagination ==
    /\ pc = "start"
    /\ has_pagination
    /\ pc' = "loop"
    /\ page_num' = 1
    /\ consecutive_failures' = 0
    /\ UNCHANGED <<start_url, all_urls_seen, media_info_all, json_file, csv_file,
                   fetches, extractions, stop_reason>>
    /\ UNCHANGED <<dlVars, fnVars, sideVars>>

\* A variant of NextIteration whose range has one page more.
NextIteration_OneMore ==
    IF page_num = max_pages + 1
    THEN /\ pc' = "persist"
         /\ stop_reason' = "MaxPagesReached"
         /\ UNCHANGED page_num
    ELSE /\ page_num' = page_num + 1
         /\ UNCHANGED <<pc, stop_reason>>

\* The end of one iteration of "for page_num in range(1, max_pages + 1)".
NextIteration ==
    IF page_num = max_pages
    THEN /\ pc' = "persist"
         /\ stop_reason' = "MaxPagesReached"
         /\ UNCHANGED page_num
    ELSE /\ page_num' = page_num + 1
         /\ UNCHANGED <<pc, stop_reason>>

\* A variant of PageFailed whose threshold test is strict.
PageFailed_StrictThreshold ==
    /\ pc = "loop"
    /\ \E html \in FetchResults(page_num) :
        /\ Falsy(html)
        /\ fetches' = Append(fetches, [page |-> page_num, ok |-> FALSE])
    /\ consecutive_failures' = consecutive_failures + 1
    /\ IF consecutive_failures' > max_consecutive_failures
       THEN /\ pc' = "persist"
            /\ stop_reason' = "TooManyFailures"
            /\ UNCHANGED page_num
       ELSE NextIteration
    /\ UNCHANGED <<start_url, all_urls_seen, media_info_all, json_file, csv_file,
                   extractions>>
    /\ UNCHANGED <<dlVars, fnVars, sideVars>>

\* The page does not load.
PageFailed ==
    /\ pc = "loop"
    /\ \E html \in FetchResults(page_num) :
        /\ Falsy(html)
        /\ fetches' = Append(fetches, [page |-> page_num, ok |-> FALSE])
    /\ consecutive_failures' = consecutive_failures + 1
    /\ IF consecutive_failures' >= max_consecutive_failures
       THEN /\ pc' = "persist"
            /\ stop_reason' = "TooManyFailures"
            /\ UNCHANGED page_num
       ELSE NextIteration
    /\ UNCHANGED <<start_url, all_urls_seen, media_info_all, json_file, csv_file,
                   extractions>>
    /\ UNCHANGED <<dlVars, fnVars, sideVars>>

NewItems(media_items) ==
    SelectSeq(media_items, LAMBDA item : item.url \notin all_urls_seen)

\* A variant of PageNoNew that goes on to the next page.
PageNoNew_GoesOn ==
    /\ pc = "loop"
    /\ \E html \in FetchResults(page_num) :
        LET page_url == update_url_page(start_url, page_num)
            media_items == get_media_links_with_metadata(html, page_url, page_url)
        IN  /\ ~Falsy(html)
            /\ NewItems(media_items) = << >>
            /\ fetches' = Append(fetches, [page |-> page_num, ok |-> TRUE])
            /\ extractions' = Append(extractions,
                   [page |-> page_num, found |-> Len(media_items), new |-> 0,
                    total |-> Len(media_info_all)])
    /\ consecutive_failures' = 0
    /\ NextIteration
    /\ UNCHANGED <<start_url, all_urls_seen, media_info_all, json_file, csv_file>>
    /\ UNCHANGED <<dlVars, fnVars, sideVars>>

\* The page loads and holds nothing new.
PageNoNew ==
    /\ pc = "loop"
    /\ \E html \in FetchResults(page_num) :
        LET page_url == update_url_page(start_url, page_num)
            media_items == get_media_links_with_metadata(html, page_url, page_url)
        IN  /\ ~Falsy(html)
            /\ NewItems(media_items) = << >>
            /\ fetches' = Append(fetches, [page |-> page_num, ok |-> TRUE])
            /\ extractions' = Append(extractions,
                   [page |-> page_num, found |-> Len(media_items), new |-> 0,
                    total |-> Len(media_info_all)])
    /\ consecutive_failures' = 0
    /\ pc' = "persist"
    /\ stop_reason' = "NoNewMedia"
    /\ UNCHANGED <<start_url, page_num, all_urls_seen, media_info_all, json_file,
                   csv_file>>
    /\ UNCHANGED <<dlVars, fnVars, sideVars>>

\* A variant of PageNew that leaves the failure counter as it is.
PageNew_KeepsCounter ==
    /\ pc = "loop"
    /\ \E html \in FetchResults(page_num) :
        LET page_url == update_url_page(start_url, page_num)
            media_items == get_media_links_with_metadata(html, page_url, page_url)
            new_items == NewItems(media_items)
        IN  /\ ~Falsy(html)
            /\ new_items # << >>
            /\ fetches' = Append(fetches, [page |-> page_num, ok |-> TRUE])
            /\ all_urls_seen' = all_urls_seen \cup Urls(new_items)
            /\ media_info_all' = media_info_all \o new_items
            /\ extractions' = Append(extractions,
                   [page |-> page_num, found |-> Len(media_items),
                    new |-> Len(new_items), total |-> Len(media_info_all')])
    /\ UNCHANGED consecutive_failures
    /\ NextIteration
    /\ UNCHANGED <<start_url, json_file, csv_file>>
    /\ UNCHANGED <<dlVars, fnVars, sideVars>>

\* The page loads and holds new items.
PageNew ==
    /\ pc = "loop"
    /\ \E html \in FetchResults(page_num) :
        LET page_url == update_url_page(start_url, page_num)
            media_items == get_media_links_with_metadata(html, page_url, page_url)
            new_items == NewItems(media_items)
        IN  /\ ~Falsy(html)
            /\ new_items # << >>
            /\ fetches' = Append(fetches, [page |-> page_num, ok |-> TRUE])
            /\ all_urls_seen' = all_urls_seen \cup Urls(new_items)
            /\ media_info_all' = media_info_all \o new_items
            /\ extractions' = Append(extractions,
                   [page |-> page_num, found |-> Len(media_items),
                    new |-> Len(new_items), total |-> Len(media_info_all')])
    /\ consecutive_failures' = 0
    /\ NextIteration
    /\ UNCHANGED <<start_url, json_file, csv_file>>
    /\ UNCHANGED <<dlVars, fnVars, sideVars>>

---------------------------------------------------------------------------
(* main: interruption *)

\* KeyboardInterrupt is raised while main fetches or sleeps: the handler of
\* lines 287-288 logs a warning and main ends.
Interrupt ==
    /\ pc \in {"start", "loop"}
    /\ pc' = "exit"
    /\ stop_reason' = "Interrupted"
    /\ UNCHANGED <<start_url, page_num, consecutive_failures, all_urls_seen,
                   media_info_all, json_file, csv_file, fetches, extractions>>
    /\ UNCHANGED <<dlVars, fnVars, sideVars>>

---------------------------------------------------------------------------
(* Metadata persister *)

save_media_info_json(media_info) == json_file' = FileOf(media_info)

\* A variant of save_media_info_csv that opens the file for an empty list too.
save_media_info_csv_AlwaysOpens(media_info) == csv_file' = FileOf(media_info)

save_media_info_csv(media_info) ==
    IF media_info = << >> THEN UNCHANGED csv_file ELSE csv_file' = FileOf(media_info)

\* A variant of Persist that leaves the JSON file for after the downloads.
Persist_JsonAfterDownloads ==
    /\ pc = "persist"
    /\ save_media_info_csv(media_info_all)
    /\ pc' = IF media_info_all # << >> THEN "download" ELSE "exit"
    /\ UNCHANGED <<start_url, page_num, consecutive_failures, all_urls_seen,
                   media_info_all, fetches, extractions, stop_reason, json_file>>
    /\ UNCHANGED <<dlVars, fnVars, sideVars>>

Persist ==
    /\ pc = "persist"
    /\ save_media_info_json(media_info_all)
    /\ save_media_info_csv(media_info_all)
    /\ pc' = IF media_info_all # << >> THEN "download" ELSE "exit"
    /\ UNCHANGED <<start_url, page_num, consecutive_failures, all_urls_seen,
                   media_info_all, fetches, extractions, stop_reason>>
    /\ UNCHANGED <<dlVars, fnVars, sideVars>>

---------------------------------------------------------------------------
(* download_media: the pool of download tasks *)

\* A variant of retries: one attempt more.
retries_OneMore == 3 + 1

\* download_with_retries(session, url, retries=3, base_delay=2)
retries == 3

\* download_media(media_info, output_folder="downloads", max_workers=5)
max_workers == 5

Items == DOMAIN media_info_all

DestPaths(items) == {FilePath(items[i]) : i \in DOMAIN items}

Running(i) == task[i].state \in {"get", "open", "write"}

Finished(i) == task[i].state \in {"returned", "collected"}

\* download_media is called: the failure list is empty and one task per item
\* is submitted to the executor.
StartDownload ==
    /\ pc = "download"
    /\ media_info_all # << >>
    /\ output_writable
    /\ pc' = "pool"
    /\ failed_urls' = << >>
    /\ task' = [i \in Items |-> [state |-> "queued", attempt |-> 0, wrote |-> "nothing",
                              result |-> "none"]]
    /\ attempts' = [i \in Items |-> << >>]
    /\ existed' = [i \in Items |-> FALSE]
    /\ UNCHANGED <<crawlData, fnVars, sideVars, files, report_file>>

\* download_media is called and os.makedirs(output_folder) raises: nothing
\* in main catches the error and the program ends with it.
MakedirsFails ==
    /\ pc = "download"
    /\ media_info_all # << >>
    /\ ~output_writable
    /\ pc' = "crashed"
    /\ UNCHANGED <<crawlData, dlVars, fnVars, sideVars>>

\* A free worker takes the oldest queued task: download_task computes the
\* destination and calls save_file, which calls download_with_retries.
WorkerStart(i) ==
    /\ pc = "pool"
    /\ task[i].state = "queued"
    /\ \A j \in Items : j < i => task[j].state # "queued"
    /\ Cardinality({j \in Items : Running(j)}) < max_workers
    /\ task' = [task EXCEPT ![i].state = "get"]
    /\ existed' = [existed EXCEPT ![i] = files[FilePath(media_info_all[i])] # "absent"]
    /\ UNCHANGED <<pc, crawlData, fnVars, sideVars, attempts, files,
                   failed_urls, report_file>>

\* download_with_retries: session.get or raise_for_status raises; after the
\* last attempt the function returns None and save_file returns False.
GetFails(i) ==
    /\ pc = "pool"
    /\ task[i].state = "get"
    /\ attempts' = [attempts EXCEPT ![i] = Append(@, FALSE)]
    /\ task' = [task EXCEPT ![i] =
                   IF task[i].attempt + 1 >= retries
                   THEN [@ EXCEPT !.state = "returned", !.attempt = @ + 1,
                                  !.result = "failed"]
                   ELSE [@ EXCEPT !.attempt = @ + 1]]
    /\ UNCHANGED <<pc, crawlData, fnVars, sideVars, existed, files,
                   failed_urls, report_file>>

\* download_with_retries: the request is answered with a 2xx status.
GetSucceeds(i) ==
    /\ pc = "pool"
    /\ task[i].state = "get"
    /\ attempts' = [attempts EXCEPT ![i] = Append(@, TRUE)]
    /\ task' = [task EXCEPT ![i].state = "open"]
    /\ UNCHANGED <<pc, crawlData, fnVars, sideVars, existed, files,
                   failed_urls, report_file>>

\* save_file: open(filepath, "wb") creates or truncates the destination.
OpenFile(i) ==
    /\ pc = "pool"
    /\ task[i].state = "open"
    /\ files' = [files EXCEPT ![FilePath(media_info_all[i])] = "partial"]
    /\ task' = [task EXCEPT ![i].state = "write", ![i].wrote = "part"]
    /\ UNCHANGED <<pc, crawlData, fnVars, sideVars, attempts, existed,
                   failed_urls, report_file>>

\* save_file: open raises; the exception is caught and False is returned.
OpenFails(i) ==
    /\ pc = "pool"
    /\ task[i].state = "open"
    /\ task' = [task EXCEPT ![i].state = "returned", ![i].result = "failed"]
    /\ UNCHANGED <<pc, crawlData, fnVars, sideVars, attempts, existed, files,
                   failed_urls, report_file>>

\* save_file: every chunk is written and the file is closed.
WriteDone(i) ==
    /\ pc = "pool"
    /\ task[i].state = "write"
    /\ files' = [files EXCEPT ![FilePath(media_info_all[i])] = "complete"]
    /\ task' = [task EXCEPT ![i].state = "returned", ![i].wrote = "all",
                            ![i].result = "ok"]
    /\ UNCHANGED <<pc, crawlData, fnVars, sideVars, attempts, existed,
                   failed_urls, report_file>>

\* save_file: reading a chunk or writing it raises; the exception is caught,
\* False is returned and the file stays as far as it was written.
WriteFails(i) ==
    /\ pc = "pool"
    /\ task[i].state = "write"
    /\ task' = [task EXCEPT ![i].state = "returned", ![i].result = "failed"]
    /\ UNCHANGED <<pc, crawlData, fnVars, sideVars, attempts, existed, files,
                   failed_urls, report_file>>

\* A variant of Collect in which the result of a failed task ends
\* download_media at once.
Collect_FailureEndsPool(i) ==
    /\ pc = "pool"
    /\ task[i].state = "returned"
    /\ failed_urls' = IF task[i].result = "failed"
                      THEN Append(failed_urls, media_info_all[i].url)
                      ELSE failed_urls
    /\ task' = [task EXCEPT ![i].state = "collected"]
    /\ pc' = IF task[i].result = "failed" THEN "done" ELSE pc
    /\ UNCHANGED <<crawlData, fnVars, sideVars, attempts, existed, files, report_file>>

\* A variant of Collect that keeps only the last failed URL.
Collect_KeepsLast(i) ==
    /\ pc = "pool"
    /\ task[i].state = "returned"
    /\ failed_urls' = IF task[i].result = "failed"
                      THEN <<media_info_all[i].url>>
                      ELSE failed_urls
    /\ task' = [task EXCEPT ![i].state = "collected"]
    /\ UNCHANGED <<pc, crawlData, fnVars, sideVars, attempts, existed, files,
                   report_file>>

\* The main thread takes a completed future: a URL is returned for a failed
\* item and appended to failed_urls.
Collect(i) ==
    /\ pc = "pool"
    /\ task[i].state = "returned"
    /\ failed_urls' = IF task[i].result = "failed"
                      THEN Append(failed_urls, media_info_all[i].url)
                      ELSE failed_urls
    /\ task' = [task EXCEPT ![i].state = "collected"]
    /\ UNCHANGED <<pc, crawlData, fnVars, sideVars, attempts, existed, files,
                   report_file>>

\* Every future was taken: the executor is left and the report is written
\* when there are failures.
WriteReport ==
    /\ pc = "pool"
    /\ \A i \in Items : task[i].state = "collected"
    /\ report_file' = IF failed_urls # << >> THEN FileOf(failed_urls) ELSE report_file
    /\ pc' = "done"
    /\ UNCHANGED <<crawlData, fnVars, sideVars, task, attempts, existed, files,
                   failed_urls>>

\* The elements of the documents whose collection is given to the pool.
PoolElements == {e \in Elements : e.src \in {RelPic, IconOne}}

PoolDocs == UNION { [1..n -> PoolElements] : n \in 1..MaxElems }

\* The state in which main calls download_media after a single-page crawl of
\* a document, with some of the destination files left by an earlier run.
InitDownload ==
    /\ pc = "download"
    /\ output_writable = TRUE
    /\ site = "short"
    /\ start_url = ListingUrl
    /\ page_num = 0
    /\ consecutive_failures = 0
    /\ \E doc \in PoolDocs :
        media_info_all = get_media_links_with_metadata(Html(doc), start_url, start_url)
    /\ media_info_all # << >>
    /\ all_urls_seen = Urls(media_info_all)
    /\ json_file = FileOf(media_info_all)
    /\ csv_file = FileOf(media_info_all)
    /\ fetches = <<[page |-> 0, ok |-> TRUE]>>
    /\ extractions = <<[page |-> 0, found |-> Len(media_info_all),
                        new |-> Len(media_info_all),
                        total |-> Len(media_info_all)]>>
    /\ stop_reason = "SinglePage"
    /\ task = << >>
    /\ attempts = << >>
    /\ existed = << >>
    /\ files \in [DestPaths(media_info_all) -> {"absent", "old"}]
    /\ failed_urls = << >>
    /\ report_file = Absent
    /\ NoDerivation
    /\ NoSide

---------------------------------------------------------------------------
(* The filename derivation taken alone *)

\* Absolute media URLs: three hosts, three directories, two basenames; two
\* URLs whose MD5 digests start with the same 8 hex digits; a URL whose path
\* ends with a slash.
UrlUniverse ==
    { [host |-> h, dir |-> d, name |-> f[1], ext |-> f[2], query |-> NoQuery] :
        h \in {"a.test", "b.test", "site.test"},
        d \in {"", "x/", "y/"},
        f \in {<<"icon", ".png">>, <<"pic", ".jpg">>} }
    \cup { clean_url(IconOne, ListingUrl), clean_url(IconTwo, ListingUrl),
           [host |-> "site.test", dir |-> "x/", name |-> "", ext |-> "",
            query |-> NoQuery] }

\* dofus-scraping.py, download_media: url.split('/')[-1].split('?')[0]
LastSegment(url) == url.name \o url.ext

InitFilename ==
    /\ pc = "derive"
    /\ output_writable = TRUE
    /\ site = "short"
    /\ url_a \in UrlUniverse
    /\ url_b \in UrlUniverse
    /\ name_a = "none"
    /\ name_b = "none"
    /\ start_url = ListingUrl
    /\ page_num = 0
    /\ consecutive_failures = 0
    /\ all_urls_seen = {}
    /\ media_info_all = << >>
    /\ json_file = Absent
    /\ csv_file = Absent
    /\ fetches = << >>
    /\ extractions = << >>
    /\ stop_reason = "none"
    /\ NotStarted
    /\ NoSide

\* global_media_scraper.py: get_unique_filename on both URLs.
DeriveHashed ==
    /\ pc = "derive"
    /\ name_a' = FilenameString(get_unique_filename(url_a))
    /\ name_b' = FilenameString(get_unique_filename(url_b))
    /\ pc' = "hashed"
    /\ UNCHANGED <<crawlData, dlVars, sideVars, url_a, url_b>>

\* dofus-scraping.py: the filename of download_media on both URLs.
DeriveLastSegment ==
    /\ pc = "derive"
    /\ name_a' = LastSegment(url_a)
    /\ name_b' = LastSegment(url_b)
    /\ pc' = "basename"
    /\ UNCHANGED <<crawlData, dlVars, sideVars, url_a, url_b>>

---------------------------------------------------------------------------
(* The persister over the files of earlier runs *)

\* The elements of the documents whose collection is given to the persister.
PersistElements == {e \in Elements : e.src # IconTwo}

PersistDocs == UNION { [1..n -> PersistElements] : n \in 0..MaxElems }

\* The state in which main reaches line 277 after a single-page crawl of a
\* document, in a working directory no run has written to.
InitPersist ==
    /\ pc = "persist"
    /\ output_writable = TRUE
    /\ site = "short"
    /\ start_url = ListingUrl
    /\ page_num = 0
    /\ consecutive_failures = 0
    /\ \E doc \in PersistDocs :
        media_info_all = get_media_links_with_metadata(Html(doc), start_url, start_url)
    /\ all_urls_seen = Urls(media_info_all)
    /\ json_file = Absent
    /\ csv_file = Absent
    /\ fetches = <<[page |-> 0, ok |-> TRUE]>>
    /\ extractions = <<[page |-> 0, found |-> Len(media_info_all),
                        new |-> Len(media_info_all),
                        total |-> Len(media_info_all)]>>
    /\ stop_reason = "SinglePage"
    /\ NotStarted
    /\ NoDerivation
    /\ NoSide

\* The program is run again in the same working directory: a single-page
\* crawl of another document, up to line 277. The two metadata files are as
\* the earlier run left them.
RunAgain ==
    /\ pc \in {"exit", "download"}
    /\ pc' = "persist"
    /\ \E doc \in PersistDocs :
        media_info_all' = get_media_links_with_metadata(Html(doc), start_url, start_url)
    /\ all_urls_seen' = Urls(media_info_all')
    /\ extractions' = <<[page |-> 0, found |-> Len(media_info_all'),
                         new |-> Len(media_info_all'),
                         total |-> Len(media_info_all')]>>
    /\ UNCHANGED <<start_url, page_num, consecutive_failures, json_file, csv_file,
                   fetches, stop_reason>>
    /\ UNCHANGED <<dlVars, fnVars, sideVars>>

---------------------------------------------------------------------------
(* The classifier taken alone *)

\* The extensions given to get_media_type: every extension of the table and
\* two that are not in it, each with and without its dot, in lower and in
\* upper case; the empty extension.
ExtensionUniverse ==
    { [base |-> p[1], dot |-> d, upper |-> u] :
        p \in CasePairs, d \in BOOLEAN, u \in BOOLEAN }
    \cup { [base |-> "", dot |-> d, upper |-> FALSE] : d \in BOOLEAN }

\* The string of an extension of the universe.
ExtensionString(e) ==
    (IF e.dot THEN "." ELSE "") \o (IF e.upper THEN Upper(e.base) ELSE e.base)

\* The state in which main is when nothing of it is looked at.
NoCrawl ==
    /\ start_url = ListingUrl
    /\ page_num = 0
    /\ consecutive_failures = 0
    /\ all_urls_seen = {}
    /\ media_info_all = << >>
    /\ json_file = Absent
    /\ csv_file = Absent
    /\ fetches = << >>
    /\ extractions = << >>
    /\ stop_reason = "none"

InitClassifier ==
    /\ pc = "classify"
    /\ output_writable = TRUE
    /\ site = "short"
    /\ extension \in ExtensionUniverse
    /\ media_type = "none"
    /\ NoExtraction
    /\ NoImages
    /\ NoDatabase
    /\ NoCrawl
    /\ NotStarted
    /\ NoDerivation

Classify ==
    /\ pc = "classify"
    /\ media_type' = get_media_type(ExtensionString(extension))
    /\ pc' = "classified"
    /\ UNCHANGED <<crawlData, dlVars, fnVars, extension, extVars, imgVars, envVars,
                   dbVars>>

---------------------------------------------------------------------------
(* The extraction taken alone *)

\* Documents made of elements of the four kinds.
ExtractDocs == UNION { [1..n -> Elements \cup ClipElements] : n \in 0..MaxElems }

InitExtract ==
    /\ pc = "extract"
    /\ output_writable = TRUE
    /\ site = "short"
    /\ html_in \in ExtractDocs
    /\ items_out = << >>
    /\ NoClassification
    /\ NoImages
    /\ NoDatabase
    /\ NoCrawl
    /\ NotStarted
    /\ NoDerivation

Extract ==
    /\ pc = "extract"
    /\ items_out' = get_media_links_with_metadata(Html(html_in), ListingUrl, ListingUrl)
    /\ pc' = "extracted"
    /\ UNCHANGED <<crawlData, dlVars, fnVars, clsVars, imgVars, envVars, dbVars,
                   html_in>>

---------------------------------------------------------------------------
(* dofus_scraping.py: download_image over the rows of the listing *)

\* The rows of the listing: each monster has an image URL and its own file.
Monsters == 1..PageMonsters

\* The first run of the scraper: no image file is there.
InitImages ==
    /\ pc = "images"
    /\ output_writable = TRUE
    /\ site = "short"
    /\ image_files = [m \in Monsters |-> "absent"]
    /\ image_before = [m \in Monsters |-> "absent"]
    /\ image_requests = [m \in Monsters |-> 0]
    /\ image_result = [m \in Monsters |-> "none"]
    /\ monster_idx = 1
    /\ NoClassification
    /\ NoExtraction
    /\ NoDatabase
    /\ NoCrawl
    /\ NotStarted
    /\ NoDerivation

\* download_image: os.path.exists(filepath) holds and filepath is returned.
ImageSkipped ==
    /\ pc = "images"
    /\ monster_idx \in Monsters
    /\ image_files[monster_idx] # "absent"
    /\ image_result' = [image_result EXCEPT ![monster_idx] = "filepath"]
    /\ monster_idx' = monster_idx + 1
    /\ UNCHANGED <<pc, crawlData, dlVars, fnVars, clsVars, extVars, envVars, dbVars>>
    /\ UNCHANGED <<image_files, image_before, image_requests>>

\* download_image: the request is answered, the file is written to its end
\* and filepath is returned.
ImageDownloaded ==
    /\ pc = "images"
    /\ monster_idx \in Monsters
    /\ image_files[monster_idx] = "absent"
    /\ image_requests' = [image_requests EXCEPT ![monster_idx] = @ + 1]
    /\ image_files' = [image_files EXCEPT ![monster_idx] = "complete"]
    /\ image_result' = [image_result EXCEPT ![monster_idx] = "filepath"]
    /\ monster_idx' = monster_idx + 1
    /\ UNCHANGED <<pc, crawlData, dlVars, fnVars, clsVars, extVars, envVars, dbVars,
                   image_before>>

\* download_image: requests.get or raise_for_status raises; "" is returned.
ImageRequestFails ==
    /\ pc = "images"
    /\ monster_idx \in Monsters
    /\ image_files[monster_idx] = "absent"
    /\ image_requests' = [image_requests EXCEPT ![monster_idx] = @ + 1]
    /\ image_result' = [image_result EXCEPT ![monster_idx] = "empty"]
    /\ monster_idx' = monster_idx + 1
    /\ UNCHANGED <<pc, crawlData, dlVars, fnVars, clsVars, extVars, envVars, dbVars>>
    /\ UNCHANGED <<image_files, image_before>>

\* download_image: the file is opened and f.write raises before the end; the
\* exception is caught and "" is returned.
ImageWriteFails ==
    /\ pc = "images"
    /\ monster_idx \in Monsters
    /\ image_files[monster_idx] = "absent"
    /\ image_requests' = [image_requests EXCEPT ![monster_idx] = @ + 1]
    /\ image_files' = [image_files EXCEPT ![monster_idx] = "partial"]
    /\ image_result' = [image_result EXCEPT ![monster_idx] = "empty"]
    /\ monster_idx' = monster_idx + 1
    /\ UNCHANGED <<pc, crawlData, dlVars, fnVars, clsVars, extVars, envVars, dbVars,
                   image_before>>

\* Every row was looked at; the scraper is run again over the same download
\* directory.
ImagesRunAgain ==
    /\ pc = "images"
    /\ monster_idx \notin Monsters
    /\ image_before' = image_files
    /\ image_requests' = [m \in Monsters |-> 0]
    /\ image_result' = [m \in Monsters |-> "none"]
    /\ monster_idx' = 1
    /\ UNCHANGED <<pc, crawlData, dlVars, fnVars, clsVars, extVars, envVars, dbVars,
                   image_files>>

---------------------------------------------------------------------------
(* dofus-scraping.py: download_media over the rows of the listing *)

\* The first run of the scraper: no file is there, and some rows have no
\* img tag.
InitMedia ==
    /\ pc = "media"
    /\ output_writable = TRUE
    /\ site = "short"
    /\ image_files \in [Monsters -> {"absent", "nourl"}]
    /\ image_before = image_files
    /\ image_requests = [m \in Monsters |-> 0]
    /\ image_result = [m \in Monsters |-> "none"]
    /\ monster_idx = 1
    /\ NoClassification
    /\ NoExtraction
    /\ NoDatabase
    /\ NoCrawl
    /\ NotStarted
    /\ NoDerivation

\* download_media: the URL is empty and "" is returned.
MediaNoUrl ==
    /\ pc = "media"
    /\ monster_idx \in Monsters
    /\ image_files[monster_idx] = "nourl"
    /\ image_result' = [image_result EXCEPT ![monster_idx] = "empty"]
    /\ monster_idx' = monster_idx + 1
    /\ UNCHANGED <<pc, crawlData, dlVars, fnVars, clsVars, extVars, envVars, dbVars>>
    /\ UNCHANGED <<image_files, image_before, image_requests>>

\* download_media: os.path.exists(filepath) holds; no request is issued and
\* filename is returned.
MediaSkipped ==
    /\ pc = "media"
    /\ monster_idx \in Monsters
    /\ image_files[monster_idx] \in {"partial", "complete"}
    /\ image_result' = [image_result EXCEPT ![monster_idx] = "filename"]
    /\ monster_idx' = monster_idx + 1
    /\ UNCHANGED <<pc, crawlData, dlVars, fnVars, clsVars, extVars, envVars, dbVars>>
    /\ UNCHANGED <<image_files, image_before, image_requests>>

\* download_media: the answer has status 200, the file is written to its end
\* and filename is returned.
MediaWritten ==
    /\ pc = "media"
    /\ monster_idx \in Monsters
    /\ image_files[monster_idx] = "absent"
    /\ image_requests' = [image_requests EXCEPT ![monster_idx] = @ + 1]
    /\ image_files' = [image_files EXCEPT ![monster_idx] = "complete"]
    /\ image_result' = [image_result EXCEPT ![monster_idx] = "filename"]
    /\ monster_idx' = monster_idx + 1
    /\ UNCHANGED <<pc, crawlData, dlVars, fnVars, clsVars, extVars, envVars, dbVars,
                   image_before>>

\* download_media: the answer has another status than 200; the branch that
\* writes is not taken, nothing is raised, and filename is returned.
MediaNotOk ==
    /\ pc = "media"
    /\ monster_idx \in Monsters
    /\ image_files[monster_idx] = "absent"
    /\ image_requests' = [image_requests EXCEPT ![monster_idx] = @ + 1]
    /\ image_result' = [image_result EXCEPT ![monster_idx] = "filename"]
    /\ monster_idx' = monster_idx + 1
    /\ UNCHANGED <<pc, crawlData, dlVars, fnVars, clsVars, extVars, envVars, dbVars>>
    /\ UNCHANGED <<image_files, image_before>>

\* download_media: requests.get raises; "" is returned.
MediaRequestFails ==
    /\ pc = "media"
    /\ monster_idx \in Monsters
    /\ image_files[monster_idx] = "absent"
    /\ image_requests' = [image_requests EXCEPT ![monster_idx] = @ + 1]
    /\ image_result' = [image_result EXCEPT ![monster_idx] = "empty"]
    /\ monster_idx' = monster_idx + 1
    /\ UNCHANGED <<pc, crawlData, dlVars, fnVars, clsVars, extVars, envVars, dbVars>>
    /\ UNCHANGED <<image_files, image_before>>

\* download_media: the file is opened and f.write raises before the end; the
\* exception is caught and "" is returned.
MediaWriteFails ==
    /\ pc = "media"
    /\ monster_idx \in Monsters
    /\ image_files[monster_idx] = "absent"
    /\ image_requests' = [image_requests EXCEPT ![monster_idx] = @ + 1]
    /\ image_files' = [image_files EXCEPT ![monster_idx] = "partial"]
    /\ image_result' = [image_result EXCEPT ![monster_idx] = "empty"]
    /\ monster_idx' = monster_idx + 1
    /\ UNCHANGED <<pc, crawlData, dlVars, fnVars, clsVars, extVars, envVars, dbVars,
                   image_before>>

\* Every row was looked at; the scraper is run again over the same download
\* directory.
MediaRunAgain ==
    /\ pc = "media"
    /\ monster_idx \notin Monsters
    /\ image_before' = image_files
    /\ image_requests' = [m \in Monsters |-> 0]
    /\ image_result' = [m \in Monsters |-> "none"]
    /\ monster_idx' = 1
    /\ UNCHANGED <<pc, crawlData, dlVars, fnVars, clsVars, extVars, envVars, dbVars,
                   image_files>>

---------------------------------------------------------------------------
(* app.py: update_quantity over the table user_monsters *)

\* The users and the monsters of the catalogue.
UserIds == {1, 2}

MonsterNames == {"Arakne", "Bouftou"}

\* The changes the page passes: +1, -1, minus the shown quantity, or the
\* difference to the quantity that was typed in.
Changes == (-MaxChange..MaxChange) \ {0}

\* A variant of GREATEST: the first value, whatever the second.
GREATEST_Unclamped(a, b) == a

\* GREATEST(a, b) of PostgreSQL.
GREATEST(a, b) == IF a >= b THEN a ELSE b

Row(u, m, q) == [user_id |-> u, monster_name |-> m, quantity |-> q]

\* The committed rows of a (user, monster) pair.
RowsOf(u, m) ==
    {r \in BagToSet(user_monsters) : r.user_id = u /\ r.monster_name = m}

\* Another transaction has written the row of the pair, or has inserted its
\* key into the unique index, and has not ended.
Locked(u, m) ==
    \E s \in Sessions :
        /\ db_session[s].state = "executed"
        /\ db_session[s].user_id = u
        /\ db_session[s].monster_name = m

\* The application has started over an initialised schema with no row of
\* ownership.
InitApp ==
    /\ pc = "app"
    /\ output_writable = TRUE
    /\ site = "short"
    /\ NoDatabase
    /\ NoClassification
    /\ NoExtraction
    /\ NoImages
    /\ NoCrawl
    /\ NotStarted
    /\ NoDerivation

\* update_quantity, cur.execute: the statement waits while another
\* transaction holds the row or the key of the pair; then it inserts
\* GREATEST(change, 0) when the unique index has no row of the pair, and
\* otherwise sets the row that is in conflict to GREATEST(quantity + change, 0).
\* The row is written in the session's transaction.
Execute(s, u, m, change) ==
    /\ pc = "app"
    /\ db_session[s].state = "idle"
    /\ ~Locked(u, m)
    /\ LET conflict == RowsOf(u, m) # {}
           q == IF conflict
                THEN GREATEST((CHOOSE r \in RowsOf(u, m) : TRUE).quantity + change, 0)
                ELSE GREATEST(change, 0)
       IN  /\ q <= MaxQuantity
           /\ db_session' = [db_session EXCEPT ![s] =
                   [state |-> "executed", user_id |-> u, monster_name |-> m,
                    quantity |-> q, conflict |-> conflict]]
    /\ UNCHANGED <<pc, crawlData, dlVars, fnVars, clsVars, extVars, imgVars, envVars,
                   user_monsters>>

\* update_quantity, conn.commit(): the written row takes the place of the
\* row in conflict, or is a new row of the table.
Commit(s) ==
    /\ pc = "app"
    /\ db_session[s].state = "executed"
    /\ LET t == db_session[s]
           new == SetToBag({Row(t.user_id, t.monster_name, t.quantity)})
           old == IF t.conflict
                  THEN SetToBag({CHOOSE r \in RowsOf(t.user_id, t.monster_name) : TRUE})
                  ELSE EmptyBag
       IN  user_monsters' = (user_monsters (-) old) (+) new
    /\ db_session' = [db_session EXCEPT ![s] = Idle]
    /\ UNCHANGED <<pc, crawlData, dlVars, fnVars, clsVars, extVars, imgVars, envVars>>

\* update_quantity, except Exception: the connection is lost before the
\* commit; the transaction is rolled back and the error is shown.
Rollback(s) ==
    /\ pc = "app"
    /\ db_session[s].state = "executed"
    /\ db_session' = [db_session EXCEPT ![s] = Idle]
    /\ UNCHANGED <<pc, crawlData, dlVars, fnVars, clsVars, extVars, imgVars, envVars,
                   user_monsters>>

---------------------------------------------------------------------------
(* main: a whole run, from the first fetch to the download report *)

\* Every destination file a crawl of the small site can lead to.
SmallSitePaths ==
    UNION { DestPaths(get_media_links_with_metadata(Html(d), ListingUrl, ListingUrl)) :
              d \in SmallSiteDocs }

\* main is called on the small site with an empty output folder.
InitRun ==
    /\ pc = "start"
    /\ output_writable = TRUE
    /\ site = "small"
    /\ start_url \in {ListingUrl, update_url_page(ListingUrl, 1)}
    /\ page_num = 0
    /\ consecutive_failures = 0
    /\ all_urls_seen = {}
    /\ media_info_all = << >>
    /\ json_file = Absent
    /\ csv_file = Absent
    /\ fetches = << >>
    /\ extractions = << >>
    /\ stop_reason = "none"
    /\ task = << >>
    /\ attempts = << >>
    /\ existed = << >>
    /\ files = [p \in SmallSitePaths |-> "absent"]
    /\ failed_urls = << >>
    /\ report_file = Absent
    /\ NoDerivation
    /\ NoClassification
    /\ NoExtraction
    /\ NoImages
    /\ NoDatabase

---------------------------------------------------------------------------
(* Specifications *)

NextCrawl ==
    \/ SinglePage
    \/ StartPagination
    \/ PageFailed
    \/ PageNoNew
    \/ PageNew
    \/ Persist

SpecCrawl == InitCrawl /\ [][NextCrawl]_vars

SpecLong == InitLong /\ [][NextCrawl]_vars

SpecBlank == InitBlank /\ [][NextCrawl]_vars

NextInterruptible ==
    \/ NextCrawl
    \/ Interrupt

SpecInterruptible == InitCrawl /\ [][NextInterruptible]_vars

NextUnwritable ==
    \/ NextCrawl
    \/ MakedirsFails

SpecUnwritable == InitUnwritable /\ [][NextUnwritable]_vars

NextDownload ==
    \/ StartDownload
    \/ \E i \in Items : WorkerStart(i)
    \/ \E i \in Items : GetFails(i)
    \/ \E i \in Items : GetSucceeds(i)
    \/ \E i \in Items : OpenFile(i)
    \/ \E i \in Items : OpenFails(i)
    \/ \E i \in Items : WriteDone(i)
    \/ \E i \in Items : WriteFails(i)
    \/ \E i \in Items : Collect(i)
    \/ WriteReport

SpecDownload == InitDownload /\ [][NextDownload]_vars

NextRun ==
    \/ NextCrawl
    \/ NextDownload

SpecRun == InitRun /\ [][NextRun]_vars

NextApp ==
    \/ \E s \in Sessions, u \in UserIds, m \in MonsterNames, change \in Changes :
          Execute(s, u, m, change)
    \/ \E s \in Sessions : Commit(s)
    \/ \E s \in Sessions : Rollback(s)

SpecApp == InitApp /\ [][NextApp]_vars

NextPersist ==
    \/ Persist
    \/ RunAgain

SpecPersist == InitPersist /\ [][NextPersist]_vars

NextFilename ==
    \/ DeriveHashed
    \/ DeriveLastSegment

SpecFilename == InitFilename /\ [][NextFilename]_vars

NextClassifier == Classify

SpecClassifier == InitClassifier /\ [][NextClassifier]_vars

NextExtract == Extract

SpecExtract == InitExtract /\ [][NextExtract]_vars

NextImages ==
    \/ ImageSkipped
    \/ ImageDownloaded
    \/ ImageRequestFails
    \/ ImageWriteFails
    \/ ImagesRunAgain

SpecImages == InitImages /\ [][NextImages]_vars

NextMedia ==
    \/ MediaNoUrl
    \/ MediaSkipped
    \/ MediaWritten
    \/ MediaNotOk
    \/ MediaRequestFails
    \/ MediaWriteFails
    \/ MediaRunAgain

SpecMedia == InitMedia /\ [][NextMedia]_vars

---------------------------------------------------------------------------
(* Properties of the crawl *)

NoDuplicates(seq) ==
    \A i, j \in DOMAIN seq : i # j => seq[i] # seq[j]

UrlSeq(items) == [i \in DOMAIN items |-> items[i].url]

\* C1: no canonical URL appears more than once in the result collection, and
\* the URLs of the collection are exactly the contents of all_urls_seen.
C1_NoUrlTwiceInCollection ==
    /\ NoDuplicates(UrlSeq(media_info_all))
    /\ Urls(media_info_all) = all_urls_seen

\* C2: in pagination mode an extraction that yields nothing new is the last
\* thing the crawl does: it is the last extraction, its page is the last page
\* fetched, the loop is left with reason NoNewMedia, and the collection has
\* the size it had after the extraction before it.
C2_StopsAtFirstPageWithoutNew ==
    start_url.query # NoQuery =>
        \A i \in DOMAIN extractions :
            extractions[i].new = 0 =>
                /\ i = Len(extractions)
                /\ fetches[Len(fetches)].page = extractions[i].page
                /\ pc # "loop"
                /\ stop_reason = "NoNewMedia"
                /\ Len(media_info_all) =
                       (IF i = 1 THEN 0 ELSE extractions[i - 1].total)

\* Page 3 is fetched, repeats items already seen, and the crawl has stopped
\* there.
C2_Witness ==
    /\ start_url.query # NoQuery
    /\ Len(extractions) = 3
    /\ extractions[3].page = 3
    /\ extractions[3].found > 0
    /\ extractions[3].new = 0
    /\ fetches[Len(fetches)].page = 3
    /\ pc = "download"

AllFetchesFailed == \A i \in DOMAIN fetches : ~fetches[i].ok

\* C3: in pagination mode, while every page fetch has failed, the pages
\* fetched are 1, 2, 3 in this order and no more, and once the loop is left
\* exactly these three fetches were issued and the reason is TooManyFailures.
C3_ThreeFetchesWhenAllFail ==
    (start_url.query # NoQuery /\ AllFetchesFailed) =>
        /\ Len(fetches) <= 3
        /\ \A i \in DOMAIN fetches : fetches[i].page = i
        /\ pc \notin {"start", "loop"} =>
               (Len(fetches) = 3 /\ stop_reason = "TooManyFailures")

C3_Witness ==
    /\ start_url.query # NoQuery
    /\ AllFetchesFailed
    /\ Len(fetches) = 3
    /\ stop_reason = "TooManyFailures"
    /\ pc = "exit"

\* C4: with a listing URL that has no page parameter there is never more than
\* one fetch nor more than one extraction, the loop variable and the failure
\* counter are never touched, and once main has left its start exactly one
\* fetch, of the start URL, was issued.
C4_SinglePageOneFetch ==
    start_url.query = NoQuery =>
        /\ Len(fetches) <= 1
        /\ Len(extractions) <= 1
        /\ Len(extractions) <= Len(fetches)
        /\ page_num = 0
        /\ consecutive_failures = 0
        /\ pc # "loop"
        /\ pc # "start" => (Len(fetches) = 1 /\ fetches[1].page = 0)

\* The single fetch failed and main has returned.
C4_Witness ==
    /\ start_url.query = NoQuery
    /\ pc = "exit"
    /\ Len(fetches) = 1
    /\ ~fetches[1].ok
    /\ extractions = << >>

\* C8: the items of the collection handed to download_media have pairwise
\* distinct destination paths.
C8_DistinctDestinationPaths ==
    pc = "download" =>
        \A i, j \in DOMAIN media_info_all :
            i # j => FilePath(media_info_all[i]) # FilePath(media_info_all[j])

\* The number of failed requests at the end of the log.
TrailingFailures(log) ==
    CHOOSE k \in 0..Len(log) :
        /\ \A i \in (Len(log) - k + 1)..Len(log) : ~log[i].ok
        /\ k < Len(log) => log[Len(log) - k].ok

C19_PagesInOrderUpToMaxPages ==
    /\ has_pagination =>
          /\ \A i \in DOMAIN fetches : fetches[i].page = i
          /\ Len(fetches) <= max_pages
          /\ pc = "loop" => (page_num = Len(fetches) + 1 /\ page_num <= max_pages)
          /\ stop_reason = "MaxPagesReached" => Len(fetches) = max_pages
          /\ Len(fetches) = max_pages => stop_reason # "none"
    /\ ~has_pagination => Len(fetches) <= 1
    /\ pc = "start" => ENABLED (SinglePage \/ StartPagination)
    /\ pc = "loop" => FetchResults(page_num) # {}
    /\ pc = "persist" => ENABLED Persist

C19_Witness ==
    /\ stop_reason = "MaxPagesReached"
    /\ pc = "download"
    /\ Len(fetches) = max_pages
    /\ fetches[max_pages].page = max_pages

\* C20: on a site whose requests are all answered, with a document that holds
\* media or with an empty body, an empty body is handled as a failed fetch:
\* the page is logged as not loaded, the failure counter counts it, no
\* extraction runs for it (every extraction finds media), and the stop for a
\* page without new items is never taken on it.
C20_EmptyBodyIsAFailedFetch ==
    site = "blank" =>
        /\ \A i \in DOMAIN fetches : fetches[i].page > SitePages => ~fetches[i].ok
        /\ (has_pagination /\ pc # "start") =>
              consecutive_failures = TrailingFailures(fetches)
        /\ Len(extractions) = Cardinality({i \in DOMAIN fetches : fetches[i].ok})
        /\ \A j \in DOMAIN extractions :
              \E i \in DOMAIN fetches :
                  fetches[i].ok /\ fetches[i].page = extractions[j].page
        /\ \A j \in DOMAIN extractions : extractions[j].found >= 1
        /\ stop_reason = "NoNewMedia" =>
              /\ fetches[Len(fetches)].ok
              /\ fetches[Len(fetches)].page <= SitePages
              /\ extractions[Len(extractions)].found >= 1

\* A page that loads, then the empty bodies of the two pages after the last
\* page of the site: the counter is at 2 and the crawl goes on.
C20_Witness ==
    /\ site = "blank"
    /\ pc = "loop"
    /\ Len(fetches) = SitePages + 2
    /\ fetches[SitePages].ok
    /\ ~fetches[SitePages + 1].ok
    /\ ~fetches[SitePages + 2].ok
    /\ consecutive_failures = 2
    /\ Len(extractions) = Cardinality({i \in DOMAIN fetches : fetches[i].ok})
    /\ stop_reason = "none"

\* The crawl has stopped and main is past the calls of the persister.
CrawlOver == stop_reason # "none" /\ pc \in {"exit", "download"}

\* C11: whatever the reason of the stop, the end of a single-page pass whose
\* fetch failed included, the crawl is not aborted: the collection gathered so
\* far is handed to the persister, and to download_media when it holds items.
C11_EveryStopHandsOverCollection ==
    CrawlOver =>
        /\ json_file = FileOf(media_info_all)
        /\ media_info_all # << >> => pc = "download"

\* C16: after an interrupt during the crawl loop the run still hands over its
\* partial result: the items collected before the interrupt are persisted.
C16_InterruptKeepsCollectedItems ==
    (stop_reason = "Interrupted" /\ media_info_all # << >>) =>
        json_file = FileOf(media_info_all)

\* C17: in a run whose output folder cannot be written to, the failure is
\* met before the crawl starts: no page is requested.
C17_NoFetchWhenOutputUnwritable ==
    ~output_writable => fetches = << >>

---------------------------------------------------------------------------
(* Properties of the persister *)

\* C12: the persister called with an empty collection does not write the CSV
\* file, not even a header line, writes a JSON file holding an empty array,
\* and returns.
C12_EmptyCollectionJsonOnly ==
    [][(pc = "persist" /\ media_info_all = << >>) =>
          /\ csv_file' = csv_file
          /\ json_file' = FileOf(<< >>)
          /\ pc' = "exit"]_vars

C12_Witness ==
    /\ pc = "exit"
    /\ media_info_all = << >>
    /\ json_file = FileOf(<< >>)
    /\ csv_file = Absent

\* C23: after persist has returned, the JSON file and the CSV file on disk
\* describe the same collection, the same items in the same order (no CSV
\* file standing for no item), also when persist has run over the files of
\* an earlier run with a different or an empty collection.
C23_JsonAndCsvSameCollection ==
    pc \in {"exit", "download"} =>
        /\ json_file.exists
        /\ json_file.content = media_info_all
        /\ csv_file.content = json_file.content

---------------------------------------------------------------------------
(* Properties of the download pool *)

InPool == pc \in {"pool", "done"}

\* The number of entries of the failure list that hold this URL.
Listed(u) == Cardinality({k \in DOMAIN failed_urls : failed_urls[k] = u})

\* The number of items with this URL whose failed result was taken by the
\* main thread.
FailedItems(u) ==
    Cardinality({i \in Items : /\ media_info_all[i].url = u
                               /\ task[i].state = "collected"
                               /\ task[i].result = "failed"})

\* C5: an item whose destination file exists when its task starts has no
\* request issued for it and ends as a success.
C5_ExistingFileNotRequested ==
    InPool =>
        \A i \in Items :
            existed[i] =>
                /\ attempts[i] = << >>
                /\ Finished(i) => task[i].result = "ok"

---------------------------------------------------------------------------
(* Properties of the filename derivation *)

\* C10: two different URLs with the same last path segment are given
\* different filenames by get_unique_filename.
C10_DistinctUrlsDistinctFilenames ==
    (pc = "hashed" /\ url_a # url_b /\ LastSegment(url_a) = LastSegment(url_b))
        => name_a # name_b

---------------------------------------------------------------------------
(* Properties of the classifier *)

\* The category under which the table lists the extension made of a dot and
\* these lower-case letters.
CategoryOf(base) ==
    IF \E k \in DOMAIN MEDIA_TYPE_MAP : "." \o base \in MEDIA_TYPE_MAP[k]
    THEN CHOOSE k \in DOMAIN MEDIA_TYPE_MAP : "." \o base \in MEDIA_TYPE_MAP[k]
    ELSE "Others"

\* C13 as stated: every extension of the table is given its category whatever
\* its case and whether or not it has its leading dot, and every other
\* extension is given Others.
C13_CategoryWhateverCaseAndDot ==
    pc = "classified" => media_type = CategoryOf(extension.base)

\* C13 amended: every extension of the table that has its leading dot is
\* given its category whatever its case; every other string, an extension of
\* the table without its dot included, is given Others.
C13_CategoryWhateverCaseWithDot ==
    pc = "classified" =>
        media_type = IF extension.dot THEN CategoryOf(extension.base) ELSE "Others"

C13_Witness ==
    /\ pc = "classified"
    /\ extension = [base |-> "png", dot |-> TRUE, upper |-> TRUE]
    /\ ExtensionString(extension) = ".PNG"
    /\ media_type = "Images"

---------------------------------------------------------------------------
(* Properties of the extraction *)

\* The attribute that names the reference of an element of this kind.
RefAttr(tag_name) == IF tag_name = "a" THEN "href" ELSE "src"

\* The items of the elements that pass the two filters, in the order in which
\* the elements stand in the document.
DocumentOrderItems(elems, base_url, page_url) ==
    LET kept == SelectSeq(elems, LAMBDA tag :
                    /\ tag.tag \in {"img", "video", "source", "a"}
                    /\ RefString(Attr(tag, RefAttr(tag.tag))) # ""
                    /\ Lower(Attr(tag, RefAttr(tag.tag)).ext) \in MEDIA_EXTENSIONS)
    IN  [i \in 1..Len(kept) |->
            MediaItem(kept[i], RefAttr(kept[i].tag), base_url, page_url)]

OfKind(items, tag_name) == SelectSeq(items, LAMBDA item : item.tag = tag_name)

KindRank(tag_name) ==
    CASE tag_name = "img" -> 1
      [] tag_name = "video" -> 2
      [] tag_name = "source" -> 3
      [] tag_name = "a" -> 4

\* C14 as stated: the items returned for a document are the items of its
\* media elements in document order, whatever the kinds of the elements.
C14_ItemsInDocumentOrder ==
    pc = "extracted" =>
        items_out = DocumentOrderItems(html_in, ListingUrl, ListingUrl)

\* C14 amended: the items returned for a document are the items of its media
\* elements grouped by kind, images first, then videos, sources and anchors,
\* and the items of one kind are in document order.
C14_ItemsByKindThenDocumentOrder ==
    pc = "extracted" =>
        LET inOrder == DocumentOrderItems(html_in, ListingUrl, ListingUrl) IN
        /\ Len(items_out) = Len(inOrder)
        /\ \A i, j \in DOMAIN items_out :
              i < j => KindRank(items_out[i].tag) <= KindRank(items_out[j].tag)
        /\ \A k \in {"img", "video", "source", "a"} :
              OfKind(items_out, k) = OfKind(inOrder, k)

C14_Witness ==
    /\ pc = "extracted"
    /\ Len(html_in) = 2
    /\ html_in[1].tag = "a"
    /\ html_in[2].tag = "img"
    /\ Len(items_out) = 2
    /\ items_out[1].tag = "img"
    /\ items_out[2].tag = "a"

---------------------------------------------------------------------------
(* Properties of download_image *)

\* C15: an image whose file an earlier run left partially written is requested
\* again in the next run and not skipped as present, and no image is returned
\* as downloaded while its file is truncated.
C15_PartialFileRequestedAgain ==
    pc = "images" =>
        \A m \in Monsters :
            /\ (image_before[m] = "partial" /\ image_result[m] # "none")
                    => image_requests[m] >= 1
            /\ image_result[m] = "filepath" => image_files[m] = "complete"

---------------------------------------------------------------------------
(* Properties of a whole run *)

\* An asset request was issued: some task has an attempt in its log.
AssetRequested == \E i \in DOMAIN attempts : attempts[i] # << >>

\* Every item of the collection ended in the failure list.
EveryDownloadFailed ==
    /\ pc = "done"
    /\ \A i \in Items : media_info_all[i].url \in
                            {failed_urls[j] : j \in DOMAIN failed_urls}

\* C21: the metadata does not depend on the downloads. In every run, once an
\* asset request has been issued, and as long as the pool works and after
\* it, the JSON file is on disk and lists every collected item in order,
\* also when every download has failed.
C21_JsonWrittenBeforeFirstRequest ==
    /\ AssetRequested => json_file = FileOf(media_info_all)
    /\ pc \in {"pool", "done"} =>
          /\ json_file # Absent
          /\ json_file.content = media_info_all
    /\ EveryDownloadFailed => json_file = FileOf(media_info_all)

\* A paginated run whose downloads all failed after the JSON was written.
C21_Witness ==
    /\ EveryDownloadFailed
    /\ AssetRequested
    /\ stop_reason = "TooManyFailures"
    /\ Len(media_info_all) = MaxElems
    /\ json_file = FileOf(media_info_all)

---------------------------------------------------------------------------
(* Properties of download_media of dofus-scraping.py *)

\* C22: a download is reported as successful (download_media returns a
\* non-empty filename) only if the destination file is on disk when the call
\* returns, so that an answer with another status than 2xx, after which
\* nothing is written, is never reported as a success.
C22_SuccessOnlyWithFileOnDisk ==
    \A m \in Monsters :
        image_result[m] = "filename" => image_files[m] \in {"partial", "complete"}

---------------------------------------------------------------------------
(* Properties of update_quantity *)

\* C24: after any sequence and any interleaving of update_quantity calls
\* with positive or negative changes, the stored quantity of every
\* (user, monster) pair is greater than or equal to 0 and the table holds at
\* most one row per pair; the same holds of the rows written and not yet
\* committed.
C24_QuantityNonNegativeOneRowPerPair ==
    /\ \A r \in BagToSet(user_monsters) : r.quantity >= 0
    /\ \A u \in UserIds, m \in MonsterNames :
          /\ Cardinality(RowsOf(u, m)) <= 1
          /\ \A r \in RowsOf(u, m) : CopiesIn(r, user_monsters) = 1
    /\ \A s \in Sessions :
          db_session[s].state = "executed" => db_session[s].quantity >= 0

\* Two calls are interleaved: one has brought the existing row of a pair
\* down to 0 and is not committed, the other has written the row of
\* another pair, and the table holds rows of two pairs.
C24_Witness ==
    /\ db_session["s1"].state = "executed"
    /\ db_session["s1"].conflict
    /\ db_session["s1"].quantity = 0
    /\ RowsOf(db_session["s1"].user_id, db_session["s1"].monster_name)
          = {Row(db_session["s1"].user_id, db_session["s1"].monster_name, 1)}
    /\ db_session["s2"].state = "executed"
    /\ BagCardinality(user_monsters) >= 2

=============================================================================
